---- MODULE Spec2Model ----
(***************************************************************************)
(* Physical memory manager (arch/x86_64/mm/physicalmem.rs) and multi-core  *)
(* bring-up (arch/x86_64/mod.rs) of libhermit-rs.                          *)
(*                                                                         *)
(* Addresses and sizes are byte values.  mm::freelist, collections,        *)
(* synch::spinlock, mm::kernel_*_address() and the boot processor's entry  *)
(* code live in other files of the kernel; they are modelled after the     *)
(* design document (spec.md), as the comment of each such definition says. *)
(***************************************************************************)
EXTENDS Integers, Sequences, FiniteSets, TLC

(***************************************************************************)
(* Bounds of the model.                                                    *)
(***************************************************************************)
\* Physical address space of the model: MemPages base pages.
MemPages == 6
\* Largest size argument of a call, in base pages.
MaxAllocPages == 2
\* Largest alignment argument of a call, in base pages.
MaxAlignPages == 2
\* Largest number of entries of a multiboot memory map.
MaxMapEntries == 2
\* Application processors besides the boot processor.
NumAPs == 2
\* Calls the cores make in the concurrent specification.
MaxCalls == 3
\* Spare list nodes the node pool holds when it is full.
PoolCapacity == 1

(***************************************************************************)
(* Program constants and address arithmetic.                               *)
(***************************************************************************)
\* BasePageSize::SIZE (arch/x86_64/mm/paging.rs): 4 KiB pages.
BasePageSize == 4096

\* Half a page: the granule in which the model draws addresses and sizes,
\* so that values which are not page multiples occur.
Granule == BasePageSize \div 2

MemTop == MemPages * BasePageSize

\* The granules of [start, end): each element a stands for the bytes
\* a .. a + Granule - 1.  Exact for granule-aligned bounds.
Cells(start, end) ==
    {k * Granule : k \in {j \in 0..(2 * MemPages + 2 * MaxAllocPages) :
                              start <= j * Granule /\ j * Granule < end}}

\* align_up!(value, alignment): the first multiple of alignment >= value.
align_up(value, alignment) ==
    ((value + alignment - 1) \div alignment) * alignment

VARIABLES
    mb_info,            \* extern static mb_info: multiboot pointer, 0 = none
    memory_map,         \* what Multiboot::memory_map() yields behind mb_info
    limit,              \* extern static limit: end of RAM, 0 = none
    kernel_start,       \* mm::kernel_start_address()
    kernel_end,         \* mm::kernel_end_address()
    PHYSICAL_FREE_LIST, \* static mut PHYSICAL_FREE_LIST: sequence of regions
    state,              \* "boot" | "running" | "halted" (after a panic)
    discovery,          \* regions pushed by each detection source during init
    allocated,          \* ranges handed out and not yet given back
    lastCall,           \* the call made last, its arguments and its outcome
    call_pc,            \* per core: "idle", or "update" inside a list call
    frame,              \* per core: the call it is in and the list it read
    started,            \* calls begun by the cores
    single_kernel,      \* environment::is_single_kernel()
    uhyve,              \* environment::is_uhyve()
    vga,                \* cfg!(feature = "vga")
    ppc,                \* per processor: steps of its boot path done so far
    executed,           \* per processor: the steps it has executed, in order
    cpu_online,         \* extern static mut cpu_online: u32
    cpu_online_lock,    \* CPU_ONLINE: the processors holding the spinlock
    reg,                \* per processor: the value read for += 1
    POOL,               \* mm::POOL: the spare list nodes it holds
    pool_log            \* what the call made last did, in order

bootEnv == <<mb_info, memory_map, limit, kernel_start, kernel_end>>
allocVars == <<PHYSICAL_FREE_LIST, state, discovery, allocated, lastCall>>
smpVars == <<call_pc, frame, started>>
bootFlags == <<single_kernel, uhyve, vga>>
cpuVars == <<ppc, executed, cpu_online, cpu_online_lock, reg>>
poolVars == <<POOL, pool_log>>
vars == <<bootEnv, allocVars, smpVars, bootFlags, cpuVars, poolVars>>

\* Processor 0 is the boot processor, 1..NumAPs the application processors.
Processors == 0..NumAPs

(***************************************************************************)
(* mm::freelist::FreeList, after the design document, section 4.2.         *)
(* A list is a sequence of regions                                         *)
(* [start |-> a, end |-> b], the half-open range [a, b).                   *)
(***************************************************************************)
Min(S) == CHOOSE x \in S : \A y \in S : x <= y

Region(start, end) == [start |-> start, end |-> end]

RemoveAt(list, i) == SubSeq(list, 1, i - 1) \o SubSeq(list, i + 1, Len(list))

\* DoublyLinkedList::push: the node becomes the last element of the list.
push(list, entry) == Append(list, entry)

\* FreeList::allocate: first region in list order with capacity >= size; the
\* bytes are taken from its start, an emptied region is removed.
FreeList_allocate(list, size) ==
    LET fit == {i \in 1..Len(list) : list[i].end - list[i].start >= size}
    IN  IF fit = {}
        THEN [ok |-> FALSE, address |-> 0, list |-> list]
        ELSE LET i == Min(fit)
                 r == list[i]
             IN  [ok |-> TRUE,
                  address |-> r.start,
                  list |-> IF r.end - r.start = size
                           THEN RemoveAt(list, i)
                           ELSE [list EXCEPT ![i].start = r.start + size]]

\* FreeList::allocate_aligned: first region in list order in which the first
\* aligned address at or above its start leaves room for size bytes; the
\* non-empty low and high remainders stay in the list in its place.
FreeList_allocate_aligned(list, size, alignment) ==
    LET fit == {i \in 1..Len(list) :
                    align_up(list[i].start, alignment) + size <= list[i].end}
    IN  IF fit = {}
        THEN [ok |-> FALSE, address |-> 0, list |-> list]
        ELSE LET i == Min(fit)
                 r == list[i]
                 a == align_up(r.start, alignment)
                 low == IF r.start < a THEN <<Region(r.start, a)>> ELSE <<>>
                 high == IF a + size < r.end
                         THEN <<Region(a + size, r.end)>> ELSE <<>>
             IN  [ok |-> TRUE,
                  address |-> a,
                  list |-> SubSeq(list, 1, i - 1) \o low \o high
                           \o SubSeq(list, i + 1, Len(list))]

\* FreeList::deallocate that merges with the preceding region only.
FreeList_deallocate_no_next_merge(list, address, size) ==
    LET end == address + size
        above == {i \in 1..Len(list) : list[i].start > address}
        pos == IF above = {} THEN Len(list) + 1 ELSE Min(above)
        inserted == SubSeq(list, 1, pos - 1) \o <<Region(address, end)>>
                    \o SubSeq(list, pos, Len(list))
    IN  IF pos > 1 /\ inserted[pos - 1].end = address
        THEN RemoveAt([inserted EXCEPT ![pos - 1].end = inserted[pos].end],
                      pos)
        ELSE inserted

\* FreeList::deallocate: insert [address, address + size) in sorted position,
\* then merge it with the following and the preceding region when adjacent.
FreeList_deallocate(list, address, size) ==
    LET end == address + size
        above == {i \in 1..Len(list) : list[i].start > address}
        pos == IF above = {} THEN Len(list) + 1 ELSE Min(above)
        inserted == SubSeq(list, 1, pos - 1) \o <<Region(address, end)>>
                    \o SubSeq(list, pos, Len(list))
        withNext == IF pos < Len(inserted) /\ inserted[pos + 1].start = end
                    THEN RemoveAt([inserted EXCEPT
                                     ![pos].end = inserted[pos + 1].end],
                                  pos + 1)
                    ELSE inserted
    IN  IF pos > 1 /\ withNext[pos - 1].end = address
        THEN RemoveAt([withNext EXCEPT ![pos - 1].end = withNext[pos].end],
                      pos)
        ELSE withNext

(***************************************************************************)
(* arch/x86_64/mm/physicalmem.rs.  Every function yields a record: the     *)
(* outcome ("ok", or "panic" with the failed check in message), the value  *)
(* returned and the free list it leaves.                                   *)
(***************************************************************************)
Returned(list, ret) ==
    [outcome |-> "ok", message |-> "", ret |-> ret, list |-> list]

Panicked(list, message) ==
    [outcome |-> "panic", message |-> message, ret |-> 0, list |-> list]

\* The filter of detect_from_multiboot_info: available entries that end
\* above the kernel.
ram_regions(map, k_end) ==
    SelectSeq(map, LAMBDA m : m.available /\ m.base + m.length > k_end)

\* ram_entry without the clip to the kernel's end.
ram_entry_unclipped(m, k_start, k_end) ==
    Region(m.base, m.base + m.length)

\* The entry detect_from_multiboot_info pushes for map entry m.
ram_entry(m, k_start, k_end) ==
    Region(IF m.base <= k_start THEN k_end ELSE m.base, m.base + m.length)

RECURSIVE push_all(_, _, _, _)
\* The for loop of detect_from_multiboot_info over the filtered entries.
push_all(list, regions, k_start, k_end) ==
    IF regions = <<>>
    THEN list
    ELSE push_all(push(list, ram_entry(Head(regions), k_start, k_end)),
                  Tail(regions), k_start, k_end)

\* detect_from_multiboot_info that reports Err, not a failed assertion, when
\* the map holds no usable RAM.
detect_from_multiboot_info_err_on_no_ram(list, mb, map, k_start, k_end) ==
    IF mb = 0
    THEN [res |-> "Err", message |-> "", list |-> list, pushed |-> 0]
    ELSE IF ~map.present
    THEN [res |-> "panic", message |-> "no_memory_map", list |-> list,
          pushed |-> 0]
    ELSE LET ram == ram_regions(map.entries, k_end)
         IN  IF Len(ram) = 0
             THEN [res |-> "Err", message |-> "", list |-> list, pushed |-> 0]
             ELSE [res |-> "Ok", message |-> "",
                   list |-> push_all(list, ram, k_start, k_end),
                   pushed |-> Len(ram)]

\* detect_from_multiboot_info: res is "Err", "Ok", or "panic" (expect/assert).
detect_from_multiboot_info(list, mb, map, k_start, k_end) ==
    IF mb = 0
    THEN [res |-> "Err", message |-> "", list |-> list, pushed |-> 0]
    ELSE IF ~map.present
    THEN [res |-> "panic", message |-> "no_memory_map", list |-> list,
          pushed |-> 0]
    ELSE LET ram == ram_regions(map.entries, k_end)
             found_ram == Len(ram) > 0
         IN  IF ~found_ram
             THEN [res |-> "panic", message |-> "no_available_ram",
                   list |-> list, pushed |-> 0]
             ELSE [res |-> "Ok", message |-> "",
                   list |-> push_all(list, ram, k_start, k_end),
                   pushed |-> Len(ram)]

\* detect_from_limits
detect_from_limits(list, lim, k_end) ==
    IF lim = 0
    THEN [res |-> "Err", message |-> "", list |-> list, pushed |-> 0]
    ELSE [res |-> "Ok", message |-> "",
          list |-> push(list, Region(k_end, lim)), pushed |-> 1]

\* init: source A, or_else source B, unwrap.
init(list, mb, map, lim, k_start, k_end) ==
    LET a == detect_from_multiboot_info(list, mb, map, k_start, k_end)
        b == detect_from_limits(a.list, lim, k_end)
    IN  IF a.res = "Err"
        THEN [outcome |-> IF b.res = "Ok" THEN "ok" ELSE "panic",
              message |-> IF b.res = "Ok" THEN "" ELSE "unwrap_err",
              list |-> b.list, pushedA |-> a.pushed, pushedB |-> b.pushed]
        ELSE [outcome |-> IF a.res = "Ok" THEN "ok" ELSE "panic",
              message |-> a.message,
              list |-> a.list, pushedA |-> a.pushed, pushedB |-> 0]

\* allocate without the check that size is a page multiple.
allocate_any_size(list, size) ==
    IF ~(size > 0) THEN Panicked(list, "size_zero")
    ELSE LET result == FreeList_allocate(list, size)
         IN  IF ~result.ok
             THEN Panicked(result.list, "could_not_allocate")
             ELSE Returned(result.list, result.address)

\* allocate that returns the result's address without checking is_ok().
allocate_unchecked_result(list, size) ==
    IF ~(size > 0) THEN Panicked(list, "size_zero")
    ELSE IF size % BasePageSize # 0 THEN Panicked(list, "size_not_page_multiple")
    ELSE LET result == FreeList_allocate(list, size)
         IN  Returned(result.list, result.address)

\* allocate that delegates to FreeList::allocate_aligned with the size as
\* alignment.
allocate_size_aligned(list, size) ==
    IF ~(size > 0) THEN Panicked(list, "size_zero")
    ELSE IF size % BasePageSize # 0 THEN Panicked(list, "size_not_page_multiple")
    ELSE LET result == FreeList_allocate_aligned(list, size, size)
         IN  IF ~result.ok
             THEN Panicked(result.list, "could_not_allocate")
             ELSE Returned(result.list, result.address)

\* allocate
allocate(list, size) ==
    IF ~(size > 0) THEN Panicked(list, "size_zero")
    ELSE IF size % BasePageSize # 0 THEN Panicked(list, "size_not_page_multiple")
    ELSE LET result == FreeList_allocate(list, size)
         IN  IF ~result.ok
             THEN Panicked(result.list, "could_not_allocate")
             ELSE Returned(result.list, result.address)

\* allocate_aligned that delegates to FreeList::allocate, dropping alignment.
allocate_aligned_first_fit(list, size, alignment) ==
    IF ~(size > 0) THEN Panicked(list, "size_zero")
    ELSE IF ~(alignment > 0) THEN Panicked(list, "alignment_zero")
    ELSE IF size % alignment # 0
    THEN Panicked(list, "size_not_alignment_multiple")
    ELSE IF alignment % BasePageSize # 0
    THEN Panicked(list, "alignment_not_page_multiple")
    ELSE LET result == FreeList_allocate(list, size)
         IN  IF ~result.ok
             THEN Panicked(result.list, "could_not_allocate")
             ELSE Returned(result.list, result.address)

\* allocate_aligned that hands (alignment, size) to the free list.
allocate_aligned_swapped(list, size, alignment) ==
    IF ~(size > 0) THEN Panicked(list, "size_zero")
    ELSE IF ~(alignment > 0) THEN Panicked(list, "alignment_zero")
    ELSE IF size % alignment # 0
    THEN Panicked(list, "size_not_alignment_multiple")
    ELSE IF alignment % BasePageSize # 0
    THEN Panicked(list, "alignment_not_page_multiple")
    ELSE LET result == FreeList_allocate_aligned(list, alignment, size)
         IN  IF ~result.ok
             THEN Panicked(result.list, "could_not_allocate")
             ELSE Returned(result.list, result.address)

\* allocate_aligned; the node pool and POOL.maintain() are left to
\* allocate_aligned_with_pool.
allocate_aligned(list, size, alignment) ==
    IF ~(size > 0) THEN Panicked(list, "size_zero")
    ELSE IF ~(alignment > 0) THEN Panicked(list, "alignment_zero")
    ELSE IF size % alignment # 0
    THEN Panicked(list, "size_not_alignment_multiple")
    ELSE IF alignment % BasePageSize # 0
    THEN Panicked(list, "alignment_not_page_multiple")
    ELSE LET result == FreeList_allocate_aligned(list, size, alignment)
         IN  IF ~result.ok
             THEN Panicked(result.list, "could_not_allocate")
             ELSE Returned(result.list, result.address)

\* deallocate that hands (size, physical_address) to the free list.
deallocate_swapped(list, k_end, physical_address, size) ==
    IF ~(physical_address >= k_end)
    THEN Panicked(list, "address_below_kernel_end")
    ELSE IF ~(size > 0) THEN Panicked(list, "size_zero")
    ELSE IF size % BasePageSize # 0 THEN Panicked(list, "size_not_page_multiple")
    ELSE Returned(FreeList_deallocate(list, size, physical_address), 0)

\* deallocate
deallocate(list, k_end, physical_address, size) ==
    IF ~(physical_address >= k_end)
    THEN Panicked(list, "address_below_kernel_end")
    ELSE IF ~(size > 0) THEN Panicked(list, "size_zero")
    ELSE IF size % BasePageSize # 0 THEN Panicked(list, "size_not_page_multiple")
    ELSE Returned(FreeList_deallocate(list, physical_address, size), 0)

(***************************************************************************)
(* Boot environments.                                                      *)
(***************************************************************************)
PageAddrs == {p * BasePageSize : p \in 0..MemPages}

\* One entry of the multiboot memory map.
MapEntries ==
    {m \in [base : PageAddrs, length : PageAddrs \ {0}, available : BOOLEAN] :
        m.base + m.length <= MemTop}

RECURSIVE SeqsUpTo(_, _)
\* The sequences over S of length 0..n.
SeqsUpTo(S, n) ==
    IF n = 0
    THEN {<<>>}
    ELSE LET shorter == SeqsUpTo(S, n - 1)
         IN  shorter \cup {Append(q, x) : q \in {r \in shorter : Len(r) = n - 1},
                                          x \in S}

\* A memory map as a boot loader hands it over: entries in ascending order
\* that do not overlap, adjacent available memory reported as one entry, and
\* no entry boundary inside the kernel image.
WellFormedMap(map, k_start, k_end) ==
    /\ \A i \in 1..(Len(map) - 1) :
          /\ map[i].base + map[i].length <= map[i + 1].base
          /\ (map[i].available /\ map[i + 1].available)
                => map[i].base + map[i].length < map[i + 1].base
    /\ \A i \in 1..Len(map) :
          /\ ~(k_start < map[i].base /\ map[i].base < k_end)
          /\ ~(k_start < map[i].base + map[i].length
                   /\ map[i].base + map[i].length < k_end)

NoMap == [present |-> FALSE, entries |-> <<>>]

\* The kernel image of the model: the second page.
KernelImages == {[start |-> BasePageSize, end |-> 2 * BasePageSize]}

\* limit: absent, or the end of RAM, above the kernel.
LimitValues == {0, MemTop}

\* The maps Multiboot::memory_map() may yield for kernel image k: none, or
\* Some(entries).
MemoryMaps(k) ==
    {NoMap} \cup
    {[present |-> TRUE, entries |-> e] :
        e \in {q \in SeqsUpTo(MapEntries, MaxMapEntries) :
                  WellFormedMap(q, k.start, k.end)}}

BootEnvOK ==
    \E k \in KernelImages :
       /\ kernel_start = k.start
       /\ kernel_end = k.end
       /\ mb_info \in {0, BasePageSize \div 2}
       /\ limit \in LimitValues
       /\ memory_map \in IF mb_info = 0 THEN {NoMap} ELSE MemoryMaps(k)

\* The record of a call: the function, its arguments, the free list it found
\* (before), how it ended, what it returned, and whether it gave back
\* exactly what the call before it had allocated (undo).
NoCall == [op |-> "none", size |-> 0, alignment |-> 0, address |-> 0,
           before |-> <<>>, outcome |-> "ok", message |-> "", ret |-> 0,
           undo |-> FALSE]

Call(op, size, alignment, address, before, r, undo) ==
    [op |-> op, size |-> size, alignment |-> alignment, address |-> address,
     before |-> before, outcome |-> r.outcome, message |-> r.message,
     ret |-> r.ret, undo |-> undo]

\* The allocator before init: FreeList::new().
AllocInit ==
    /\ PHYSICAL_FREE_LIST = <<>>
    /\ state = "boot"
    /\ discovery = [a |-> 0, b |-> 0]
    /\ allocated = {}
    /\ lastCall = NoCall

NoFrame == [op |-> "none", size |-> 0, alignment |-> 0, address |-> 0,
            seen |-> <<>>]

\* No core is inside a call.
SmpInit ==
    /\ call_pc = [c \in Processors |-> "idle"]
    /\ frame = [c \in Processors |-> NoFrame]
    /\ started = 0

\* No processor has begun its boot path; cpu_online is 0 and unlocked.
CpuInit ==
    /\ ppc = [p \in Processors |-> 0]
    /\ executed = [p \in Processors |-> <<>>]
    /\ cpu_online = 0
    /\ cpu_online_lock = {}
    /\ reg = [p \in Processors |-> 0]

\* The node pool is filled, and no call has been made.
PoolInit ==
    /\ POOL = PoolCapacity
    /\ pool_log = <<>>

Init ==
    /\ BootEnvOK
    /\ AllocInit
    /\ SmpInit
    /\ single_kernel = TRUE /\ uhyve = FALSE /\ vga = FALSE
    /\ CpuInit
    /\ PoolInit

(***************************************************************************)
(* Calls, one at a time.                                                   *)
(***************************************************************************)
AfterCall(r) == IF r.outcome = "ok" THEN "running" ELSE "halted"

\* physicalmem::init(), called once during boot.
InitCall ==
    /\ state = "boot"
    /\ LET r == init(PHYSICAL_FREE_LIST, mb_info, memory_map, limit,
                     kernel_start, kernel_end)
       IN  /\ PHYSICAL_FREE_LIST' = r.list
           /\ state' = AfterCall(r)
           /\ discovery' = [a |-> r.pushedA, b |-> r.pushedB]
           /\ lastCall' = Call("init", 0, 0, 0, PHYSICAL_FREE_LIST,
                               [outcome |-> r.outcome, message |-> r.message,
                                ret |-> 0], FALSE)
    /\ UNCHANGED <<bootEnv, allocated, smpVars, bootFlags, poolVars, cpuVars>>

\* Sizes and alignments a caller passes: zero, half a page (not a page
\* multiple) and the page multiples up to the bound.
SizeArgs == {0, Granule} \cup {k * BasePageSize : k \in 1..MaxAllocPages}
AlignmentArgs == {0, Granule} \cup {k * BasePageSize : k \in 1..MaxAlignPages}

Range(address, size) == [address |-> address, size |-> size]

\* A range handed out to a caller on processor core.
Held(address, size, core) == [address |-> address, size |-> size, core |-> core]

\* allocate(size)
AllocateCall(size) ==
    /\ state = "running"
    /\ LET r == allocate(PHYSICAL_FREE_LIST, size)
       IN  /\ PHYSICAL_FREE_LIST' = r.list
           /\ state' = AfterCall(r)
           /\ allocated' = IF r.outcome = "ok"
                           THEN allocated \cup {Held(r.ret, size, 0)}
                           ELSE allocated
           /\ lastCall' = Call("allocate", size, 0, 0, PHYSICAL_FREE_LIST, r,
                               FALSE)
    /\ UNCHANGED <<bootEnv, discovery, smpVars, bootFlags, poolVars, cpuVars>>

\* allocate_aligned(size, alignment)
AllocateAlignedCall(size, alignment) ==
    /\ state = "running"
    /\ LET r == allocate_aligned(PHYSICAL_FREE_LIST, size, alignment)
       IN  /\ PHYSICAL_FREE_LIST' = r.list
           /\ state' = AfterCall(r)
           /\ allocated' = IF r.outcome = "ok"
                           THEN allocated \cup {Held(r.ret, size, 0)}
                           ELSE allocated
           /\ lastCall' = Call("allocate_aligned", size, alignment, 0,
                               PHYSICAL_FREE_LIST, r, FALSE)
    /\ UNCHANGED <<bootEnv, discovery, smpVars, bootFlags, poolVars, cpuVars>>

\* What callers pass to deallocate: a range they hold, or arguments that
\* break a documented precondition (an address below the kernel's end, a
\* size of zero or of half a page).
DeallocateArgs ==
    {Range(x.address, x.size) : x \in allocated}
    \cup {Range(a, BasePageSize) : a \in {kernel_start, kernel_end - Granule}}
    \cup {Range(x.address, s) : x \in allocated, s \in {0, Granule}}

\* deallocate(physical_address, size)
DeallocateCall(physical_address, size) ==
    /\ state = "running"
    /\ Range(physical_address, size) \in DeallocateArgs
    /\ LET r == deallocate(PHYSICAL_FREE_LIST, kernel_end, physical_address,
                           size)
       IN  /\ PHYSICAL_FREE_LIST' = r.list
           /\ state' = AfterCall(r)
           /\ allocated' = IF r.outcome = "ok"
                           THEN allocated \ {Held(physical_address, size, 0)}
                           ELSE allocated
           /\ lastCall' = Call("deallocate", size, 0, physical_address,
                               PHYSICAL_FREE_LIST, r,
                               /\ lastCall.op \in {"allocate", "allocate_aligned"}
                               /\ lastCall.outcome = "ok"
                               /\ lastCall.ret = physical_address
                               /\ lastCall.size = size)
    /\ UNCHANGED <<bootEnv, discovery, smpVars, bootFlags, poolVars, cpuVars>>

Next ==
    \/ InitCall
    \/ \E size \in SizeArgs : AllocateCall(size)
    \/ \E size \in SizeArgs, alignment \in AlignmentArgs :
          AllocateAlignedCall(size, alignment)
    \/ \E x \in DeallocateArgs : DeallocateCall(x.address, x.size)

Spec == Init /\ [][Next]_vars

(***************************************************************************)
(* Boot from limit alone, with RAM that ends at any page above the kernel  *)
(* up to one page beyond MemTop.  The calls are those of Spec.             *)
(***************************************************************************)
LimitsAboveKernel ==
    {p * BasePageSize : p \in 1..(MemPages + 1)}

InitFromLimit ==
    /\ \E k \in KernelImages :
          /\ kernel_start = k.start
          /\ kernel_end = k.end
          /\ limit \in {a \in LimitsAboveKernel : a > k.end}
    /\ mb_info = 0
    /\ memory_map = NoMap
    /\ AllocInit
    /\ SmpInit
    /\ single_kernel = TRUE /\ uhyve = FALSE /\ vga = FALSE
    /\ CpuInit
    /\ PoolInit

SpecFromLimit == InitFromLimit /\ [][Next]_vars

(***************************************************************************)
(* Calls with the node pool.  After the design document, sections 2, 4.2   *)
(* and 4.3: a free-list method that adds a region to the list takes the    *)
(* node from mm::POOL, one that removes a region gives the node back, and  *)
(* POOL.maintain() refills the pool from physical memory.  pool_log holds  *)
(* what the call made last did, in order.                                  *)
(***************************************************************************)
PoolResult(outcome, message, ret, list, pool, log) ==
    [outcome |-> outcome, message |-> message, ret |-> ret, list |-> list,
     pool |-> pool, log |-> log]

\* POOL.maintain(): with fewer spare nodes than PoolCapacity, a page is
\* allocated from physical memory and the pool is filled.
POOL_maintain(list, pool) ==
    IF pool >= PoolCapacity
    THEN PoolResult("ok", "", 0, list, pool, <<"POOL.maintain">>)
    ELSE LET page == allocate(list, BasePageSize)
         IN  PoolResult(page.outcome, page.message, page.ret, page.list,
                        IF page.outcome = "ok"
                        THEN PoolCapacity + (Len(list) - Len(page.list))
                        ELSE pool,
                        <<"POOL.maintain", "physicalmem::allocate">>)

\* r is the outcome of a wrapper whose assertion on its arguments failed:
\* the free list was not called.
AssertionFailed(r) ==
    r.outcome = "panic" /\ r.message # "could_not_allocate"

\* The free-list method named method has turned list into r.list: the nodes
\* of added regions come from the pool, those of removed regions go to it.
\* An empty pool ends the call in the middle of the change.
WithPool(list, pool, r, method) ==
    LET taken == Len(r.list) - Len(list)
    IN  IF r.outcome = "panic"
        THEN PoolResult("panic", r.message, 0, r.list, pool, <<method>>)
        ELSE IF taken > pool
        THEN PoolResult("panic", "node_pool_empty", 0, list, pool,
                        <<method, "POOL.empty">>)
        ELSE PoolResult("ok", "", r.ret, r.list, pool - taken,
                        <<method>> \o (IF taken > 0 THEN <<"POOL.take">>
                                       ELSE <<>>))

\* allocate, with the nodes it moves
allocate_with_pool(list, pool, size) ==
    LET r == allocate(list, size)
    IN  IF AssertionFailed(r)
        THEN PoolResult("panic", r.message, 0, list, pool, <<>>)
        ELSE WithPool(list, pool, r, "PHYSICAL_FREE_LIST.allocate")

\* allocate_aligned that calls POOL.maintain() after the free list.
allocate_aligned_with_pool_maintain_last(list, pool, size, alignment) ==
    LET r == allocate_aligned(list, size, alignment)
    IN  IF AssertionFailed(r)
        THEN PoolResult("panic", r.message, 0, list, pool, <<>>)
        ELSE LET found == WithPool(list, pool, r,
                                   "PHYSICAL_FREE_LIST.allocate_aligned")
                 m == POOL_maintain(found.list, found.pool)
             IN  IF found.outcome = "panic"
                 THEN found
                 ELSE PoolResult(m.outcome, m.message, found.ret, m.list,
                                 m.pool, found.log \o m.log)

\* allocate_aligned, with POOL.maintain() and the nodes it moves
allocate_aligned_with_pool(list, pool, size, alignment) ==
    LET r == allocate_aligned(list, size, alignment)
        m == POOL_maintain(list, pool)
    IN  IF AssertionFailed(r)
        THEN PoolResult("panic", r.message, 0, list, pool, <<>>)
        ELSE IF m.outcome = "panic"
        THEN PoolResult("panic", m.message, 0, m.list, m.pool, m.log)
        ELSE LET found == WithPool(m.list, m.pool,
                                   allocate_aligned(m.list, size, alignment),
                                   "PHYSICAL_FREE_LIST.allocate_aligned")
             IN  [found EXCEPT !.log = m.log \o @]

\* deallocate, with the nodes it moves
deallocate_with_pool(list, pool, k_end, physical_address, size) ==
    LET r == deallocate(list, k_end, physical_address, size)
    IN  IF AssertionFailed(r)
        THEN PoolResult("panic", r.message, 0, list, pool, <<>>)
        ELSE WithPool(list, pool, r, "PHYSICAL_FREE_LIST.deallocate")

\* mm::deallocate, after the design document, section 4.3: the virtual
\* memory's deallocation calls POOL.maintain(), then deallocate is called.
mm_deallocate(list, pool, k_end, physical_address, size) ==
    LET m == POOL_maintain(list, pool)
    IN  IF m.outcome = "panic"
        THEN PoolResult("panic", m.message, 0, m.list, m.pool, m.log)
        ELSE LET r == deallocate_with_pool(m.list, m.pool, k_end,
                                           physical_address, size)
             IN  [r EXCEPT !.log = m.log \o @]

\* The call op has ended as r.
PoolCall(op, size, alignment, address, r) ==
    /\ state = "running"
    /\ PHYSICAL_FREE_LIST' = r.list
    /\ POOL' = r.pool
    /\ pool_log' = r.log
    /\ state' = AfterCall(r)
    /\ lastCall' = Call(op, size, alignment, address, PHYSICAL_FREE_LIST, r,
                        FALSE)
    /\ UNCHANGED <<bootEnv, discovery, smpVars, bootFlags, cpuVars>>

\* allocate(size)
PoolAllocate(size) ==
    LET r == allocate_with_pool(PHYSICAL_FREE_LIST, POOL, size)
    IN  /\ PoolCall("allocate", size, 0, 0, r)
        /\ allocated' = IF r.outcome = "ok"
                        THEN allocated \cup {Held(r.ret, size, 0)}
                        ELSE allocated

\* allocate_aligned(size, alignment)
PoolAllocateAligned(size, alignment) ==
    LET r == allocate_aligned_with_pool(PHYSICAL_FREE_LIST, POOL, size,
                                        alignment)
    IN  /\ PoolCall("allocate_aligned", size, alignment, 0, r)
        /\ allocated' = IF r.outcome = "ok"
                        THEN allocated \cup {Held(r.ret, size, 0)}
                        ELSE allocated

\* deallocate(physical_address, size), called directly
PoolDeallocate(physical_address, size) ==
    LET r == deallocate_with_pool(PHYSICAL_FREE_LIST, POOL, kernel_end,
                                  physical_address, size)
    IN  /\ PoolCall("deallocate", size, 0, physical_address, r)
        /\ allocated' = IF r.outcome = "ok"
                        THEN allocated \ {Held(physical_address, size, 0)}
                        ELSE allocated

\* deallocate(physical_address, size), called from mm::deallocate
PoolMmDeallocate(physical_address, size) ==
    LET r == mm_deallocate(PHYSICAL_FREE_LIST, POOL, kernel_end,
                           physical_address, size)
    IN  /\ PoolCall("mm::deallocate", size, 0, physical_address, r)
        /\ allocated' = IF r.outcome = "ok"
                        THEN allocated \ {Held(physical_address, size, 0)}
                        ELSE allocated

NextPool ==
    \/ InitCall
    \/ \E size \in SizeArgs : PoolAllocate(size)
    \/ \E size \in SizeArgs, alignment \in AlignmentArgs :
          PoolAllocateAligned(size, alignment)
    \/ \E x \in DeallocateArgs : PoolDeallocate(x.address, x.size)
    \/ \E x \in DeallocateArgs : PoolMmDeallocate(x.address, x.size)

SpecPool == InitFromLimit /\ [][NextPool]_vars

(***************************************************************************)
(* Boot environments without the boot loader's care: the memory map is any *)
(* sequence of entries (unsorted, overlapping, adjacent, with a base or a  *)
(* length that is no page multiple, beginning inside the kernel image),    *)
(* and limit is any address.  The calls are those of Spec.                 *)
(***************************************************************************)
\* Addresses in steps of half a page.
GranuleAddrs == {g * Granule : g \in 0..(2 * MemPages)}

\* One entry of a memory map, page-aligned or not.
AnyMapEntries ==
    {m \in [base : GranuleAddrs, length : GranuleAddrs \ {0},
            available : BOOLEAN] :
        m.base + m.length <= MemTop}

\* A kernel image of two pages, so that page addresses lie inside it.
AnyKernelImages == {[start |-> BasePageSize, end |-> 3 * BasePageSize]}

\* Maps of page-aligned entries in any order, and maps of one entry that
\* need not be page-aligned.
AnyMemoryMaps ==
    {NoMap} \cup
    {[present |-> TRUE, entries |-> e] :
        e \in {q \in SeqsUpTo(AnyMapEntries, MaxMapEntries) :
                  Len(q) > 1 => \A i \in 1..Len(q) : q[i] \in MapEntries}}

\* Either the multiboot pointer or limit describes the RAM, or neither.
AnyBootEnv ==
    \E k \in AnyKernelImages :
       /\ kernel_start = k.start
       /\ kernel_end = k.end
       /\ mb_info \in {0, BasePageSize \div 2}
       /\ limit \in IF mb_info = 0 THEN GranuleAddrs ELSE {0}
       /\ memory_map \in IF mb_info = 0 THEN {NoMap} ELSE AnyMemoryMaps

InitAnyBoot ==
    /\ AnyBootEnv
    /\ AllocInit
    /\ SmpInit
    /\ single_kernel = TRUE /\ uhyve = FALSE /\ vga = FALSE
    /\ CpuInit
    /\ PoolInit

SpecAnyBoot == InitAnyBoot /\ [][Next]_vars

(***************************************************************************)
(* Calls from several cores.  physicalmem.rs reaches PHYSICAL_FREE_LIST,   *)
(* a static mut, through unsafe blocks and takes no lock, so a call is two *)
(* steps that other cores interleave with: FreeList's scan of the list,    *)
(* and its update of the list.                                             *)
(***************************************************************************)
\* The wrapper named op applied to list.
Apply(op, list, size, alignment, address) ==
    CASE op = "allocate" -> allocate(list, size)
      [] op = "allocate_aligned" -> allocate_aligned(list, size, alignment)
      [] op = "deallocate" -> deallocate(list, kernel_end, address, size)

\* Core c enters a wrapper: the assertions run, then FreeList's method reads
\* the list.  A failed assertion or an Err result panics.
Enter(c, op, size, alignment, address) ==
    /\ state = "running"
    /\ call_pc[c] = "idle"
    /\ started < MaxCalls
    /\ started' = started + 1
    /\ LET r == Apply(op, PHYSICAL_FREE_LIST, size, alignment, address)
       IN  IF r.outcome = "panic"
           THEN /\ state' = "halted"
                /\ lastCall' = Call(op, size, alignment, address,
                                    PHYSICAL_FREE_LIST, r, FALSE)
                /\ UNCHANGED <<call_pc, frame>>
           ELSE /\ call_pc' = [call_pc EXCEPT ![c] = "update"]
                /\ frame' = [frame EXCEPT ![c] =
                               [op |-> op, size |-> size,
                                alignment |-> alignment, address |-> address,
                                seen |-> PHYSICAL_FREE_LIST]]
                /\ UNCHANGED <<state, lastCall>>
    /\ UNCHANGED <<bootEnv, PHYSICAL_FREE_LIST, discovery, bootFlags,
                   poolVars, cpuVars>>

\* allocate(size) on core c, up to the end of the scan
EnterAllocate(c, size) ==
    /\ Enter(c, "allocate", size, 0, 0)
    /\ UNCHANGED allocated

\* allocate_aligned(size, alignment) on core c, up to the end of the scan
EnterAllocateAligned(c, size, alignment) ==
    /\ Enter(c, "allocate_aligned", size, alignment, 0)
    /\ UNCHANGED allocated

\* deallocate(physical_address, size) on core c, up to the end of the scan;
\* the caller gives up the range with the call.
EnterDeallocate(c, x) ==
    /\ x \in allocated
    /\ Enter(c, "deallocate", x.size, 0, x.address)
    /\ allocated' = IF state' = "running" THEN allocated \ {x} ELSE allocated

\* The second half of FreeList's method on core c: the list is updated and
\* the call returns the address found by the scan.  The update is either the
\* stale list the scan worked out, or the same change made in place to the
\* list as it is now (the unsynchronised accesses allow both).
Update(c) ==
    /\ state = "running"
    /\ call_pc[c] = "update"
    /\ LET f == frame[c]
           planned == Apply(f.op, f.seen, f.size, f.alignment, f.address)
           inPlace == Apply(f.op, PHYSICAL_FREE_LIST, f.size, f.alignment,
                            f.address)
       IN  /\ PHYSICAL_FREE_LIST' \in
                 {planned.list} \cup
                 IF inPlace.outcome = "ok" THEN {inPlace.list} ELSE {}
           /\ allocated' = IF f.op = "deallocate"
                           THEN allocated
                           ELSE allocated \cup {Held(planned.ret, f.size, c)}
           /\ lastCall' = Call(f.op, f.size, f.alignment, f.address, f.seen,
                               planned, FALSE)
    /\ call_pc' = [call_pc EXCEPT ![c] = "idle"]
    /\ frame' = [frame EXCEPT ![c] = NoFrame]
    /\ UNCHANGED <<bootEnv, state, discovery, started, bootFlags, poolVars,
                   cpuVars>>

\* Boot from limit, then calls from every core.
InitSMP == Init /\ mb_info = 0 /\ limit # 0

NextSMP ==
    \/ InitCall
    \/ \E c \in Processors, size \in SizeArgs : EnterAllocate(c, size)
    \/ \E c \in Processors, size \in SizeArgs, alignment \in AlignmentArgs :
          EnterAllocateAligned(c, size, alignment)
    \/ \E c \in Processors, x \in allocated : EnterDeallocate(c, x)
    \/ \E c \in Processors : Update(c)

SpecSMP == InitSMP /\ [][NextSMP]_vars

(***************************************************************************)
(* arch/x86_64/mod.rs: processor bring-up.  A boot path is the sequence of *)
(* the calls it makes; ppc[p] counts the calls processor p has made.       *)
(***************************************************************************)
\* The increment **CPU_ONLINE.lock() += 1: take the spinlock, read the
\* counter, write it back plus one, drop the guard.
increment_cpu_online ==
    <<"CPU_ONLINE.lock", "cpu_online.load", "cpu_online.store",
      "CPU_ONLINE.unlock">>

\* message_output_init
message_output_init(single) ==
    <<"percore::init">> \o (IF single THEN <<"COM1.init">> ELSE <<>>)

\* boot_processor_init that enables interrupts before the interrupt
\* descriptor table is installed.
boot_processor_init_irq_enable_early(single, hyp, has_vga) ==
    <<"processor::detect_features", "processor::configure">>
    \o (IF has_vga /\ single /\ ~hyp THEN <<"vga::init">> ELSE <<>>)
    \o <<"mm::init", "mm::print_information", "environment::init",
         "gdt::init", "gdt::add_current_core", "irq::enable", "idt::install">>
    \o (IF ~hyp THEN <<"pic::init">> ELSE <<>>)
    \o <<"irq::install", "processor::detect_frequency",
         "processor::print_information">>
    \o (IF single /\ ~hyp
        THEN <<"pci::init", "pci::print_information", "acpi::init">>
        ELSE <<>>)
    \o <<"apic::init", "scheduler::install_timer_handler">>
    \o increment_cpu_online

\* boot_processor_init
boot_processor_init(single, hyp, has_vga) ==
    <<"processor::detect_features", "processor::configure">>
    \o (IF has_vga /\ single /\ ~hyp THEN <<"vga::init">> ELSE <<>>)
    \o <<"mm::init", "mm::print_information", "environment::init",
         "gdt::init", "gdt::add_current_core", "idt::install">>
    \o (IF ~hyp THEN <<"pic::init">> ELSE <<>>)
    \o <<"irq::install", "irq::enable", "processor::detect_frequency",
         "processor::print_information">>
    \o (IF single /\ ~hyp
        THEN <<"pci::init", "pci::print_information", "acpi::init">>
        ELSE <<>>)
    \o <<"apic::init", "scheduler::install_timer_handler">>
    \o increment_cpu_online

\* boot_application_processors
boot_application_processors ==
    <<"apic::boot_application_processors", "apic::print_information">>

\* application_processor_init that initializes the local APIC before the
\* x2APIC.
application_processor_init_apic_swapped ==
    <<"percore::init", "processor::configure", "gdt::add_current_core",
      "idt::install", "apic::init_local_apic", "apic::init_x2apic",
      "irq::enable">>
    \o increment_cpu_online

\* application_processor_init
application_processor_init ==
    <<"percore::init", "processor::configure", "gdt::add_current_core",
      "idt::install", "apic::init_x2apic", "apic::init_local_apic",
      "irq::enable">>
    \o increment_cpu_online

\* A boot processor's entry code that wakes the application processors
\* before its own initialization.
boot_processor_main_early_wakeup(single, hyp, has_vga) ==
    message_output_init(single)
    \o boot_application_processors
    \o boot_processor_init(single, hyp, has_vga)

\* The boot processor's entry code, after the design document, section 4.4:
\* message output, boot_processor_init, then boot_application_processors.
boot_processor_main(single, hyp, has_vga) ==
    message_output_init(single)
    \o boot_processor_init(single, hyp, has_vga)
    \o boot_application_processors

\* The boot path of processor p.
Program(p) ==
    IF p = 0
    THEN boot_processor_main(single_kernel, uhyve, vga)
    ELSE application_processor_init

NextStep(p) == Program(p)[ppc[p] + 1]

Elements(q) == {q[i] : i \in 1..Len(q)}

\* Processor p may make its next call: the kernel has not panicked, the path
\* is not at its end, and an application processor has been woken by
\* apic::boot_application_processors.
MayStep(p) ==
    /\ state # "halted"
    /\ ppc[p] < Len(Program(p))
    /\ p # 0 => "apic::boot_application_processors" \in Elements(executed[0])

\* The call is made.
Advance(p) ==
    /\ ppc' = [ppc EXCEPT ![p] = @ + 1]
    /\ executed' = [executed EXCEPT ![p] = Append(@, NextStep(p))]

\* The calls whose effect on the shared state is modelled.
Modelled ==
    {"mm::init"} \cup Elements(increment_cpu_online)

\* A call to a collaborator (processor, gdt, idt, pic, irq, pci, acpi, apic,
\* scheduler, vga, serial): only the position moves.
CollaboratorCall(p) ==
    /\ MayStep(p)
    /\ NextStep(p) \notin Modelled
    /\ Advance(p)
    /\ UNCHANGED <<bootEnv, allocVars, smpVars, bootFlags, poolVars,
                   cpu_online, cpu_online_lock, reg>>

\* ::mm::init() on the boot processor: physicalmem::init() runs.
MmInit(p) ==
    /\ MayStep(p)
    /\ NextStep(p) = "mm::init"
    /\ state = "boot"
    /\ Advance(p)
    /\ LET r == init(PHYSICAL_FREE_LIST, mb_info, memory_map, limit,
                     kernel_start, kernel_end)
       IN  /\ PHYSICAL_FREE_LIST' = r.list
           /\ state' = AfterCall(r)
           /\ discovery' = [a |-> r.pushedA, b |-> r.pushedB]
           /\ lastCall' = Call("init", 0, 0, 0, PHYSICAL_FREE_LIST,
                               [outcome |-> r.outcome, message |-> r.message,
                                ret |-> 0], FALSE)
    /\ UNCHANGED <<bootEnv, allocated, smpVars, bootFlags, poolVars,
                   cpu_online, cpu_online_lock, reg>>

\* Spinlock::lock, after the design document, section 5: the caller spins
\* while another processor holds the lock.
Spinlock_free(holders) == holders = {}

\* CPU_ONLINE.lock() that does not wait for the lock to be free.
CpuOnlineLockNoWait(p) ==
    /\ MayStep(p)
    /\ NextStep(p) = "CPU_ONLINE.lock"
    /\ cpu_online_lock' = cpu_online_lock \cup {p}
    /\ Advance(p)
    /\ UNCHANGED <<bootEnv, allocVars, smpVars, bootFlags, poolVars,
                   cpu_online, reg>>

\* CPU_ONLINE.lock()
CpuOnlineLock(p) ==
    /\ MayStep(p)
    /\ NextStep(p) = "CPU_ONLINE.lock"
    /\ Spinlock_free(cpu_online_lock)
    /\ cpu_online_lock' = cpu_online_lock \cup {p}
    /\ Advance(p)
    /\ UNCHANGED <<bootEnv, allocVars, smpVars, bootFlags, poolVars,
                   cpu_online, reg>>

\* += 1, the read of the counter
CpuOnlineLoad(p) ==
    /\ MayStep(p)
    /\ NextStep(p) = "cpu_online.load"
    /\ reg' = [reg EXCEPT ![p] = cpu_online]
    /\ Advance(p)
    /\ UNCHANGED <<bootEnv, allocVars, smpVars, bootFlags, poolVars,
                   cpu_online, cpu_online_lock>>

\* += 1, the write of the counter.  Each processor increments once, so the
\* u32 stays far below its wrap-around at 2^32.
CpuOnlineStore(p) ==
    /\ MayStep(p)
    /\ NextStep(p) = "cpu_online.store"
    /\ cpu_online' = reg[p] + 1
    /\ Advance(p)
    /\ UNCHANGED <<bootEnv, allocVars, smpVars, bootFlags, poolVars,
                   cpu_online_lock,
                   reg>>

\* The end of the statement without the release of the lock.
CpuOnlineUnlockKeepsLock(p) ==
    /\ MayStep(p)
    /\ NextStep(p) = "CPU_ONLINE.unlock"
    /\ Advance(p)
    /\ UNCHANGED <<bootEnv, allocVars, smpVars, bootFlags, poolVars,
                   cpu_online, cpu_online_lock, reg>>

\* The guard is dropped at the end of the statement.
CpuOnlineUnlock(p) ==
    /\ MayStep(p)
    /\ NextStep(p) = "CPU_ONLINE.unlock"
    /\ cpu_online_lock' = cpu_online_lock \ {p}
    /\ Advance(p)
    /\ UNCHANGED <<bootEnv, allocVars, smpVars, bootFlags, poolVars,
                   cpu_online, reg>>

\* Boot with every combination of the mode flags; RAM comes from limit.
InitBoot ==
    /\ BootEnvOK
    /\ mb_info = 0
    /\ AllocInit
    /\ SmpInit
    /\ single_kernel \in BOOLEAN /\ uhyve \in BOOLEAN /\ vga \in BOOLEAN
    /\ CpuInit
    /\ PoolInit

NextBoot ==
    \E p \in Processors :
       \/ CollaboratorCall(p)
       \/ MmInit(p)
       \/ CpuOnlineLock(p)
       \/ CpuOnlineLoad(p)
       \/ CpuOnlineStore(p)
       \/ CpuOnlineUnlock(p)

SpecBoot == InitBoot /\ [][NextBoot]_vars

\* A step of processor p.
ProcessorStep(p) ==
    \/ CollaboratorCall(p)
    \/ MmInit(p)
    \/ CpuOnlineLock(p)
    \/ CpuOnlineLoad(p)
    \/ CpuOnlineStore(p)
    \/ CpuOnlineUnlock(p)

\* Every processor is a core of its own that keeps executing its
\* instructions: a step that stays possible is taken.  A processor spinning
\* on CPU_ONLINE.lock() takes the lock once it stays free.
SpecBootFair ==
    SpecBoot /\ \A p \in Processors : WF_vars(ProcessorStep(p))

(***************************************************************************)
(* Vocabulary of the properties.                                           *)
(***************************************************************************)
RegionCells(r) == Cells(r.start, r.end)
RangeCells(x) == Cells(x.address, x.address + x.size)

FreeCells(list) == UNION {RegionCells(list[i]) : i \in 1..Len(list)}
AllocatedCells(ranges) == UNION {RangeCells(x) : x \in ranges}

RECURSIVE FreeBytes(_)
FreeBytes(list) ==
    IF list = <<>> THEN 0
    ELSE (Head(list).end - Head(list).start) + FreeBytes(Tail(list))

Regions(list) == {list[i] : i \in 1..Len(list)}

Sorted(list) == \A i \in 1..(Len(list) - 1) : list[i].start < list[i + 1].start

\* The RAM above the kernel's end that the boot environment describes:
\* the available map entries when a multiboot pointer is given, the range up
\* to limit otherwise.
DiscoveredRam ==
    {a \in Cells(0, MemTop) :
        /\ a >= kernel_end
        /\ IF mb_info # 0
           THEN \E i \in 1..Len(memory_map.entries) :
                   LET m == memory_map.entries[i]
                   IN  m.available /\ m.base <= a /\ a < m.base + m.length
           ELSE a < limit}

\* init has run and did not abort the boot.
Initialized ==
    state # "boot" /\ ~(lastCall.op = "init" /\ lastCall.outcome = "panic")

AllocationCall == lastCall.op \in {"allocate", "allocate_aligned"}

\* The preconditions the claims name, stated on the arguments of the call.
ValidArguments ==
    CASE lastCall.op = "allocate" ->
            lastCall.size > 0 /\ lastCall.size % BasePageSize = 0
      [] lastCall.op = "allocate_aligned" ->
            /\ lastCall.size > 0
            /\ lastCall.alignment > 0
            /\ lastCall.alignment % BasePageSize = 0
            /\ lastCall.size % lastCall.alignment = 0
      [] lastCall.op = "deallocate" ->
            /\ lastCall.address >= kernel_end
            /\ lastCall.size > 0
            /\ lastCall.size % BasePageSize = 0
      [] OTHER -> TRUE

(***************************************************************************)
(* C1  Disjointness and conservation: once init has succeeded, after any   *)
(* sequence of allocate, allocate_aligned and deallocate calls no byte is  *)
(* in two free regions, in two allocated ranges, or both free and          *)
(* allocated, and the free and the allocated bytes together are exactly    *)
(* the RAM the boot environment describes above the kernel's end.          *)
(***************************************************************************)
C1_Conservation ==
    Initialized =>
        /\ \A i, j \in 1..Len(PHYSICAL_FREE_LIST) :
              i # j => RegionCells(PHYSICAL_FREE_LIST[i])
                         \cap RegionCells(PHYSICAL_FREE_LIST[j]) = {}
        /\ \A x, y \in allocated :
              x # y => RangeCells(x) \cap RangeCells(y) = {}
        /\ FreeCells(PHYSICAL_FREE_LIST) \cap AllocatedCells(allocated) = {}
        /\ FreeCells(PHYSICAL_FREE_LIST) \cup AllocatedCells(allocated)
              = DiscoveredRam

\* A deallocate has returned while ranges are still held and the free list
\* is split in two or more regions.
C1_Witness ==
    /\ state = "running"
    /\ lastCall.op = "deallocate"
    /\ allocated # {}
    /\ Len(PHYSICAL_FREE_LIST) >= 2

(***************************************************************************)
(* C5  Alignment: the address a successful allocate_aligned(size,          *)
(* alignment) returns is a multiple of alignment, and all of               *)
(* [address, address + size) was in the free list the call found.          *)
(***************************************************************************)
C5_Alignment ==
    (lastCall.op = "allocate_aligned" /\ lastCall.outcome = "ok") =>
        /\ lastCall.ret % lastCall.alignment = 0
        /\ Cells(lastCall.ret, lastCall.ret + lastCall.size)
              \subseteq FreeCells(lastCall.before)

\* An aligned allocation of more than page alignment that skipped the start
\* of its region: a free region ends where the returned range begins.
C5_Witness ==
    /\ lastCall.op = "allocate_aligned"
    /\ lastCall.outcome = "ok"
    /\ lastCall.alignment > BasePageSize
    /\ \E i \in 1..Len(PHYSICAL_FREE_LIST) :
          PHYSICAL_FREE_LIST[i].end = lastCall.ret

(***************************************************************************)
(* C6  Fatal preconditions: allocate with a size of zero or not a page     *)
(* multiple, allocate_aligned with an alignment that is zero or not a page *)
(* multiple or with a size that is not a multiple of the alignment, and    *)
(* deallocate with an address below the kernel's end or a size of zero or  *)
(* not a page multiple, each end in a panic that halts the kernel, return  *)
(* nothing and leave the free list as they found it.                       *)
(***************************************************************************)
C6_FatalPreconditions ==
    (lastCall.op \in {"allocate", "allocate_aligned", "deallocate"}
        /\ ~ValidArguments) =>
        /\ state = "halted"
        /\ lastCall.outcome = "panic"
        /\ lastCall.message # "could_not_allocate"
        /\ PHYSICAL_FREE_LIST = lastCall.before

\* deallocate was called with an address below the kernel's end while
\* memory was allocated, and the kernel halted.
C6_Witness ==
    /\ state = "halted"
    /\ lastCall.op = "deallocate"
    /\ lastCall.address < kernel_end
    /\ lastCall.size = BasePageSize
    /\ allocated # {}

(***************************************************************************)
(* C7  Exhaustion: an allocate or allocate_aligned call with valid         *)
(* arguments that asks for more than the free bytes panics with            *)
(* "could not allocate" and halts the kernel; a call that returns took     *)
(* size bytes from the free bytes, inside the discovered RAM and apart     *)
(* from every range handed out earlier.  So the sizes of the successful    *)
(* calls of a sequence never sum to more than the free bytes it started    *)
(* with: a sequence asking for more hits a call that halts the kernel.     *)
(***************************************************************************)
C7_Exhaustion ==
    AllocationCall =>
        /\ (ValidArguments /\ lastCall.size > FreeBytes(lastCall.before)) =>
              /\ state = "halted"
              /\ lastCall.outcome = "panic"
              /\ lastCall.message = "could_not_allocate"
        /\ lastCall.outcome = "ok" =>
              LET got == Held(lastCall.ret, lastCall.size, 0)
              IN  /\ lastCall.size <= FreeBytes(lastCall.before)
                  /\ FreeBytes(PHYSICAL_FREE_LIST)
                        = FreeBytes(lastCall.before) - lastCall.size
                  /\ RangeCells(got) \subseteq DiscoveredRam
                  /\ RangeCells(got)
                        \cap AllocatedCells(allocated \ {got}) = {}

\* With every byte handed out, one more valid allocation halted the kernel.
C7_Witness ==
    /\ state = "halted"
    /\ AllocationCall
    /\ ValidArguments
    /\ lastCall.message = "could_not_allocate"
    /\ PHYSICAL_FREE_LIST = <<>>
    /\ Cardinality(allocated) >= 2

(***************************************************************************)
(* C8  Merge correctness: a successful deallocate(address, size) replaces  *)
(* the free regions adjacent to [address, address + size) (at most one     *)
(* ending at address, at most one starting at address + size) by one       *)
(* region spanning them and the range, so the region count changes by 0    *)
(* for one neighbour and by -1 for two; without a neighbour it adds the    *)
(* range as one new region; every other region is unchanged and the list   *)
(* stays sorted by address.                                                *)
(***************************************************************************)
C8_MergeCorrectness ==
    (lastCall.op = "deallocate" /\ lastCall.outcome = "ok") =>
        LET old == lastCall.before
            new == PHYSICAL_FREE_LIST
            from == lastCall.address
            to == lastCall.address + lastCall.size
            below == {r \in Regions(old) : r.end = from}
            above == {r \in Regions(old) : r.start = to}
            merged == Region(IF below = {} THEN from
                             ELSE (CHOOSE r \in below : TRUE).start,
                             IF above = {} THEN to
                             ELSE (CHOOSE r \in above : TRUE).end)
        IN  /\ Cardinality(below) <= 1
            /\ Cardinality(above) <= 1
            /\ Regions(new) = (Regions(old) \ (below \cup above)) \cup {merged}
            /\ Len(new) = Len(old) + 1 - Cardinality(below \cup above)
            /\ Cardinality(Regions(new)) = Len(new)
            /\ Sorted(new)

\* A range between two free regions was given back: one region now extends
\* beyond the range on both sides, and the list is one region shorter.
C8_Witness ==
    /\ lastCall.op = "deallocate"
    /\ lastCall.outcome = "ok"
    /\ \E i \in 1..Len(PHYSICAL_FREE_LIST) :
          /\ PHYSICAL_FREE_LIST[i].start < lastCall.address
          /\ PHYSICAL_FREE_LIST[i].end > lastCall.address + lastCall.size
    /\ Len(lastCall.before) = Len(PHYSICAL_FREE_LIST) + 1

UsableEntries ==
    {i \in 1..Len(memory_map.entries) :
        /\ memory_map.entries[i].available
        /\ memory_map.entries[i].base + memory_map.entries[i].length
              > kernel_end}

C10_SourceSelection ==
    state # "boot" =>
        /\ discovery.b > 0 <=> (mb_info = 0 /\ limit # 0)
        /\ discovery.a > 0 <=> (mb_info # 0 /\ UsableEntries # {})
        /\ (mb_info # 0 /\ UsableEntries = {}) => ~Initialized
        /\ (mb_info = 0 /\ limit = 0) => ~Initialized
        /\ Initialized => (discovery.a > 0) # (discovery.b > 0)
        /\ ~Initialized => PHYSICAL_FREE_LIST = <<>>

\* A map is present with entries but none usable, limit is set, and init
\* has aborted the boot.
C10_Witness ==
    /\ state = "halted"
    /\ lastCall.op = "init"
    /\ mb_info # 0
    /\ memory_map.present
    /\ Len(memory_map.entries) > 0
    /\ limit # 0
    /\ lastCall.message = "no_available_ram"

(***************************************************************************)
(* C2  Mutual exclusion on the free list: at most one core at a time is    *)
(* between the scan and the update of a free-list call, and the ranges     *)
(* held after concurrent allocations do not overlap.                       *)
(***************************************************************************)
\* What callers observe of the exclusion: no two held ranges overlap.
NoOverlappingRanges ==
    \A x, y \in allocated : x # y => RangeCells(x) \cap RangeCells(y) = {}

C2_MutualExclusion ==
    /\ \A c, d \in Processors :
          c # d => ~(call_pc[c] = "update" /\ call_pc[d] = "update")
    /\ NoOverlappingRanges

(***************************************************************************)
(* C3  Core counter: cpu_online starts at 0 and, whenever no processor is  *)
(* inside its increment, equals the number of processors that have         *)
(* completed their initialization, in every interleaving; with all         *)
(* NumAPs + 1 processors done it is NumAPs + 1.                            *)
(***************************************************************************)
Completed(p) == "CPU_ONLINE.unlock" \in Elements(executed[p])
InIncrement(p) ==
    "CPU_ONLINE.lock" \in Elements(executed[p]) /\ ~Completed(p)

C3_CoreCounter ==
    (\A p \in Processors : ~InIncrement(p)) =>
        cpu_online = Cardinality({p \in Processors : Completed(p)})

\* Every processor has completed its initialization.
C3_Witness ==
    /\ \A p \in Processors : Completed(p)
    /\ cpu_online = NumAPs + 1

(***************************************************************************)
(* C4  Boot ordering: when boot_application_processors runs, and whenever  *)
(* an application processor has made a call of its boot path, the boot     *)
(* processor has made every call of boot_processor_init in order, through  *)
(* the timer handler install and the counter increment, and the physical   *)
(* memory manager is initialized.                                          *)
(***************************************************************************)
C4_BootOrdering ==
    (\/ "apic::boot_application_processors" \in Elements(executed[0])
     \/ \E p \in Processors \ {0} : executed[p] # <<>>) =>
        LET first == Len(message_output_init(single_kernel))
            path == boot_processor_init(single_kernel, uhyve, vga)
        IN  /\ Len(executed[0]) >= first + Len(path)
            /\ SubSeq(executed[0], first + 1, first + Len(path)) = path
            /\ cpu_online >= 1
            /\ Initialized

\* An application processor registers with the descriptor tables.
C4_Witness ==
    \E p \in Processors \ {0} :
        /\ "gdt::add_current_core" \in Elements(executed[p])
        /\ ~Completed(p)

(***************************************************************************)
(* C11  The kernel image is never free: for every memory map and kernel    *)
(* bounds, after init and after any sequence of calls every region of the  *)
(* free list starts at or above the kernel's end, and no allocation        *)
(* returns an address below the kernel's end.                              *)
(***************************************************************************)
C11_KernelNeverFree ==
    Initialized =>
        /\ \A i \in 1..Len(PHYSICAL_FREE_LIST) :
              PHYSICAL_FREE_LIST[i].start >= kernel_end
        /\ (AllocationCall /\ lastCall.outcome = "ok") =>
              lastCall.ret >= kernel_end

(***************************************************************************)
(* C12  Boot-processor step order: for every combination of the            *)
(* single-kernel, hypervisor and display flags, the calls the boot         *)
(* processor has made occur in the stated order, each once and none but    *)
(* the optional ones skipped: processor features, configuration, display   *)
(* (optional), memory manager, environment, descriptor tables, interrupt   *)
(* descriptor table, interrupt controller (not under a hypervisor),        *)
(* interrupt enable, frequency detection, bus enumeration and firmware     *)
(* tables (single-kernel, not under a hypervisor), advanced interrupt      *)
(* controller, timer handler, and the counter increment as the last step   *)
(* of boot_processor_init.                                                 *)
(***************************************************************************)
\* The order the design document states for the boot processor.
StatedBootOrder ==
    <<"processor::detect_features", "processor::configure", "vga::init",
      "mm::init", "environment::init", "gdt::init", "gdt::add_current_core",
      "idt::install", "pic::init", "irq::enable",
      "processor::detect_frequency", "pci::init", "acpi::init", "apic::init",
      "scheduler::install_timer_handler", "CPU_ONLINE.lock",
      "cpu_online.load", "cpu_online.store", "CPU_ONLINE.unlock">>

\* The position of step in order.
PositionIn(order, step) == Min({k \in 1..Len(order) : order[k] = step})

\* Whether the stated order has the step made under the flags of this boot;
\* the display driver is optional under any flags.
StatedToRun(step) ==
    CASE step = "pic::init" -> ~uhyve
      [] step \in {"pci::init", "acpi::init"} -> single_kernel /\ ~uhyve
      [] OTHER -> TRUE

C12_BootProcessorOrder ==
    LET e == executed[0]
        stated == {i \in 1..Len(e) : e[i] \in Elements(StatedBootOrder)}
    IN  /\ \A i, j \in stated :
              i < j => PositionIn(StatedBootOrder, e[i])
                          < PositionIn(StatedBootOrder, e[j])
        /\ \A j \in stated :
              /\ StatedToRun(e[j])
              /\ \A k \in 1..(PositionIn(StatedBootOrder, e[j]) - 1) :
                    (StatedToRun(StatedBootOrder[k])
                        /\ StatedBootOrder[k] # "vga::init")
                       => StatedBootOrder[k] \in Elements(SubSeq(e, 1, j - 1))
        /\ \A i \in 1..Len(e) :
              "CPU_ONLINE.unlock" \in Elements(SubSeq(e, 1, i - 1))
                 => e[i] \in Elements(boot_application_processors)

\* Under a hypervisor the boot processor has finished boot_processor_init
\* without the interrupt controller's init.
C12_Witness ==
    /\ uhyve
    /\ Completed(0)
    /\ "irq::enable" \in Elements(executed[0])
    /\ "pic::init" \notin Elements(executed[0])

(***************************************************************************)
(* C13  Structure of the free list: in every state from the return of init *)
(* on, whatever entries the memory map holds (adjacent, overlapping,       *)
(* unsorted) and after every allocate, allocate_aligned and deallocate, no *)
(* two regions of the free list overlap and none ends where another        *)
(* begins.                                                                 *)
(***************************************************************************)
C13_StructuralInvariant ==
    Initialized =>
        \A i, j \in 1..Len(PHYSICAL_FREE_LIST) :
            i # j =>
                LET a == PHYSICAL_FREE_LIST[i]
                    b == PHYSICAL_FREE_LIST[j]
                IN  /\ ~(a.start < b.end /\ b.start < a.end)
                    /\ a.end # b.start

(***************************************************************************)
(* C14  Well-formed regions: for every boot input that init accepts (any   *)
(* base and length of a map entry, any non-zero limit) and after any       *)
(* sequence of calls, every region of the free list has start < end with   *)
(* start and length multiples of the page size, and every address          *)
(* allocate or allocate_aligned returns is a multiple of the page size.    *)
(***************************************************************************)
C14_RegionWellFormed ==
    Initialized =>
        /\ \A i \in 1..Len(PHYSICAL_FREE_LIST) :
              LET r == PHYSICAL_FREE_LIST[i]
              IN  /\ r.start < r.end
                  /\ r.start % BasePageSize = 0
                  /\ (r.end - r.start) % BasePageSize = 0
        /\ (AllocationCall /\ lastCall.outcome = "ok") =>
              lastCall.ret % BasePageSize = 0

(***************************************************************************)
(* C15  First fit: a successful allocate(size) returns the start of the    *)
(* first region in list order whose capacity is at least size; that region *)
(* begins size bytes later, or is removed when the call takes all of it;   *)
(* every other region is unchanged.  With the free list                    *)
(* {[0x10000, 0x100000)}, allocate(0x2000) returns 0x10000 and leaves      *)
(* {[0x12000, 0x100000)}, and deallocate(0x10000, 0x2000) restores the     *)
(* single region [0x10000, 0x100000).                                      *)
(***************************************************************************)
Capacity(r) == r.end - r.start

\* The example of the design document, section 8.
C15_Example ==
    LET free == <<Region(65536, 1048576)>>
        got == allocate(free, 8192)
        back == deallocate(got.list, kernel_end, 65536, 8192)
    IN  /\ got.outcome = "ok"
        /\ got.ret = 65536
        /\ got.list = <<Region(73728, 1048576)>>
        /\ back.outcome = "ok"
        /\ back.list = free

C15_FirstFit ==
    /\ C15_Example
    /\ (lastCall.op = "allocate" /\ lastCall.outcome = "ok") =>
          LET old == lastCall.before
              new == PHYSICAL_FREE_LIST
              size == lastCall.size
          IN  \E i \in 1..Len(old) :
                 /\ \A k \in 1..(i - 1) : Capacity(old[k]) < size
                 /\ Capacity(old[i]) >= size
                 /\ lastCall.ret = old[i].start
                 /\ IF Capacity(old[i]) = size
                    THEN /\ Len(new) = Len(old) - 1
                         /\ \A k \in 1..(i - 1) : new[k] = old[k]
                         /\ \A k \in i..Len(new) : new[k] = old[k + 1]
                    ELSE /\ Len(new) = Len(old)
                         /\ new[i] = Region(old[i].start + size, old[i].end)
                         /\ \A k \in 1..Len(old) : k # i => new[k] = old[k]

\* An allocation passed over the first region, which was too small, and
\* took all of a later one.
C15_Witness ==
    /\ lastCall.op = "allocate"
    /\ lastCall.outcome = "ok"
    /\ Len(lastCall.before) >= 2
    /\ Capacity(lastCall.before[1]) < lastCall.size
    /\ lastCall.ret > lastCall.before[1].start
    /\ Len(PHYSICAL_FREE_LIST) = Len(lastCall.before) - 1

FreeListMethods ==
    {"PHYSICAL_FREE_LIST.allocate", "PHYSICAL_FREE_LIST.allocate_aligned",
     "PHYSICAL_FREE_LIST.deallocate"}

\* Where the free-list method of the call made last begins in pool_log.
MethodBegins == {i \in 1..Len(pool_log) : pool_log[i] \in FreeListMethods}

\* POOL.maintain() comes before the scan of allocate_aligned, deallocate
\* does not maintain the pool, and once a free-list method has begun
\* neither the pool is maintained nor the allocator entered again.
MaintainedOutsideMethods ==
    /\ (lastCall.op = "allocate_aligned" /\ MethodBegins # {}) =>
          \E i \in 1..(Min(MethodBegins) - 1) : pool_log[i] = "POOL.maintain"
    /\ lastCall.op = "deallocate" =>
          "POOL.maintain" \notin Elements(pool_log)
    /\ \A i \in MethodBegins :
          \A j \in (i + 1)..Len(pool_log) :
              pool_log[j] \notin
                  {"POOL.maintain", "physicalmem::allocate"}
                  \cup FreeListMethods

C17_NodePool ==
    /\ MaintainedOutsideMethods
    /\ "POOL.empty" \notin Elements(pool_log)

C17_NodePoolAmended ==
    /\ MaintainedOutsideMethods
    /\ "POOL.empty" \in Elements(pool_log) => lastCall.op = "deallocate"

\* mm::deallocate found the pool without a spare node: the pool was
\* refilled from physical memory, then the free list took a node for the
\* region given back.
C17_Witness ==
    /\ lastCall.op = "mm::deallocate"
    /\ lastCall.outcome = "ok"
    /\ pool_log = <<"POOL.maintain", "physicalmem::allocate",
                    "PHYSICAL_FREE_LIST.deallocate", "POOL.take">>

(***************************************************************************)
(* C18  Application-processor step order: what an application processor    *)
(* has done is always a beginning of: per-core state init, processor       *)
(* configuration, descriptor-table registration, IDT install, x2APIC init, *)
(* local APIC init, interrupt enable, and the increment of the counter,    *)
(* once, as the last step; from the read of the counter to the end of the  *)
(* increment the processor holds the counter's lock.                       *)
(***************************************************************************)
\* The order the design document states for an application processor.
StatedApplicationOrder ==
    <<"percore::init", "processor::configure", "gdt::add_current_core",
      "idt::install", "apic::init_x2apic", "apic::init_local_apic",
      "irq::enable", "CPU_ONLINE.lock", "cpu_online.load",
      "cpu_online.store", "CPU_ONLINE.unlock">>

C18_ApplicationProcessorOrder ==
    \A p \in Processors \ {0} :
        /\ Len(executed[p]) <= Len(StatedApplicationOrder)
        /\ executed[p] = SubSeq(StatedApplicationOrder, 1, Len(executed[p]))
        /\ InIncrement(p) => p \in cpu_online_lock
        /\ Cardinality({i \in 1..Len(executed[p]) :
                           executed[p][i] = "cpu_online.store"})
              = IF "cpu_online.store" \in Elements(executed[p]) THEN 1 ELSE 0

\* One application processor has finished while another is on its way.
C18_Witness ==
    \E p, q \in Processors \ {0} :
        /\ Completed(p)
        /\ "apic::init_local_apic" \in Elements(executed[q])
        /\ ~InIncrement(q)
        /\ ~Completed(q)

(***************************************************************************)
(* C19  Convergence: with every processor scheduled fairly, once a         *)
(* processor has begun its initialization, either the boot is aborted by a *)
(* panic before any application processor is woken, or every processor     *)
(* takes the counter's lock, increments and finishes, and from some point  *)
(* on cpu_online is NumAPs + 1 for ever.                                   *)
(***************************************************************************)
AllCoresOnline ==
    /\ cpu_online = NumAPs + 1
    /\ \A p \in Processors : Completed(p)

\* The kernel panicked before the boot processor woke any processor.
BootAborted ==
    /\ state = "halted"
    /\ "apic::boot_application_processors" \notin Elements(executed[0])

C19_Convergence ==
    (\E p \in Processors : executed[p] # <<>>)
        ~> (BootAborted \/ []AllCoresOnline)

\* An application processor spins on the counter's lock while another holds
\* it.
C19_Witness ==
    \E p, q \in Processors \ {0} :
        /\ p # q
        /\ ppc[p] < Len(Program(p))
        /\ NextStep(p) = "CPU_ONLINE.lock"
        /\ cpu_online_lock = {q}

====
